---- MODULE Spec2Model ----
(***************************************************************************)
(* Model of r2r's action client (src/src/action_clients.rs): the pending   *)
(* tables of WrappedActionClient, the five message handlers of             *)
(* ActionClient_, send_cancel_request, send_result_request and destroy.    *)
(* The rcl transport and the consumers on the other side of the channels   *)
(* are the environment: they choose return codes, sequence numbers,        *)
(* message contents and when a receiver is dropped.                        *)
(***************************************************************************)
EXTENDS Integers, Sequences, FiniteSets, TLC

\* ---------------------------------------------------------------- bounds
\* calls of send_goal_request / send_cancel_request / send_result_request
\* and sink registrations the caller makes in one run
MaxIssued == 3
\* longest status_list of one GoalStatusArray
MaxStatusList == 2
\* buffer of a feedback mpsc channel
FeedbackCap == 1

\* ---------------------------------------------------------------- values
Goals == {"g1", "g2"}
\* a uuid field on the wire: 16 bytes of a goal, or a vector of another length
BadUuid == "short"
WireUuids == Goals \cup {BadUuid}
NoGoal == "none"
\* sequence numbers a response can carry: every one the transport can have
\* handed out within MaxIssued sends (it counts up from 1 on each sub-channel)
SeqNos == 1..MaxIssued
\* CancelGoal::Response.return_code on the wire: the four known codes and one other
CancelCodes == {0, 1, 2, 3, 4}
\* status codes on the wire: Executing, Succeeded, Aborted and one code that
\* is no GoalStatus
StatusCodes == {2, 4, 6, 7}
\* every status code of a GoalStatus, and one code on either side of them
AllStatusCodes == -1..7
Payloads == {"p1", "p2"}
GoalResponses == {"accepted", "rejected"}
NoValue == "novalue"
NoEntry == "noentry"

\* enum GoalStatus in declaration order
GoalStatus ==
  <<"Unknown", "Accepted", "Executing", "Canceling", "Succeeded", "Canceled", "Aborted">>

\* from_rcl gone wrong: the arms of Succeeded and Aborted change places
from_rcl_swapped(s) ==
  CASE s = 0 -> "Unknown"
    [] s = 1 -> "Accepted"
    [] s = 2 -> "Executing"
    [] s = 3 -> "Canceling"
    [] s = 4 -> "Aborted"
    [] s = 5 -> "Canceled"
    [] s = 6 -> "Succeeded"
    [] OTHER -> "panic"

\* GoalStatus::from_rcl; "panic" stands for the panic!() arm
from_rcl(s) ==
  CASE s = 0 -> "Unknown"
    [] s = 1 -> "Accepted"
    [] s = 2 -> "Executing"
    [] s = 3 -> "Canceling"
    [] s = 4 -> "Succeeded"
    [] s = 5 -> "Canceled"
    [] s = 6 -> "Aborted"
    [] OTHER -> "panic"

\* vec_to_uuid_bytes: a vector that is not 16 long panics
vec_to_uuid_bytes(u) == IF u = BadUuid THEN "panic" ELSE u

VARIABLES
  goal_response_channels,    \* Vec<(i64, oneshot::Sender<Response>)>
  cancel_response_channels,  \* Vec<(i64, oneshot::Sender<CancelGoal::Response>)>
  feedback_senders,          \* Vec<(Uuid, mpsc::Sender<Feedback>)>
  result_requests,           \* Vec<(i64, Uuid)>
  result_senders,            \* Vec<(Uuid, oneshot::Sender<Result>)>
  goal_status,               \* HashMap<Uuid, GoalStatus>
  goal_sinks,                \* the goal-response oneshot channels made so far
  cancel_reqs,               \* the send_cancel_request calls so far: what each
                             \* returned and the oneshot channel behind its future
  result_sinks,              \* the result oneshot channels made so far
  mpsc,                      \* the feedback channels made so far
  issued,                    \* calls and registrations made so far
  result_seq,                \* result requests the transport accepted so far
  lifecycle,                 \* "live", "finalized" (after destroy), "dropped"
  panicked,                  \* a handler hit panic!()
  event                      \* the operation that ran last, with its inputs

tables == <<goal_response_channels, cancel_response_channels, feedback_senders,
            result_requests, result_senders, goal_status>>
sinks == <<goal_sinks, cancel_reqs, result_sinks, mpsc>>
vars == <<goal_response_channels, cancel_response_channels, feedback_senders,
          result_requests, result_senders, goal_status, goal_sinks, cancel_reqs,
          result_sinks, mpsc, issued, result_seq, lifecycle, panicked, event>>

\* ------------------------------------------------------------ Vec helpers
\* .iter().position(|(id, _)| id == &key): 1-based index of the first match, 0 for None
RECURSIVE PositionFrom(_, _, _)
PositionFrom(v, key, i) ==
  IF i > Len(v) THEN 0
  ELSE IF v[i].key = key THEN i
  ELSE PositionFrom(v, key, i + 1)

\* position gone wrong: the closure accepts every entry
position_any(v, key) == IF Len(v) > 0 THEN 1 ELSE 0

position(v, key) == PositionFrom(v, key, 1)

\* swap_remove gone wrong: nothing is removed
swap_remove_keeps(v, idx) == v

\* swap_remove gone wrong: the last element is removed, whatever idx is
swap_remove_pops(v, idx) == SubSeq(v, 1, Len(v) - 1)

\* Vec::swap_remove(idx): the last element takes the place of the removed one
swap_remove(v, idx) ==
  IF idx = Len(v) THEN SubSeq(v, 1, Len(v) - 1)
  ELSE SubSeq([v EXCEPT ![idx] = v[Len(v)]], 1, Len(v) - 1)

\* .iter().any(|(suuid, _)| suuid == &uuid)
any(v, key) == \E i \in 1..Len(v) : v[i].key = key

Keys(v) == {v[i].key : i \in 1..Len(v)}

\* ------------------------------------------------------ oneshot channels
\* oneshot::channel(): the sender is held by a table, the receiver by a consumer
NewOneshot ==
  [tx |-> "held", rx |-> "awaiting", value |-> NoValue, sends |-> 0]

\* Sender::send(v): consumes the sender; the receiver gets v, or the call
\* returns Err(v) when the receiver is gone
Send(o, v) ==
  [o EXCEPT !.tx = IF o.rx = "awaiting" THEN "sent" ELSE "failed",
            !.value = IF o.rx = "awaiting" THEN v ELSE o.value,
            !.sends = o.sends + 1]

\* the sender goes out of scope without a send: the receiver sees Canceled
DropSender(o) == IF o.tx = "held" THEN [o EXCEPT !.tx = "dropped"] ELSE o

\* the future of send_cancel_request gone wrong: codes 2 and 3 change places
CancelFuture_swapped(o) ==
  CASE o.rx # "awaiting" -> "no future"
    [] o.tx = "held" -> "Pending"
    [] o.tx = "dropped" -> "Err(RCL_RET_CLIENT_INVALID)"
    [] o.tx = "sent" /\ o.value = 0 -> "Ok"
    [] o.tx = "sent" /\ o.value = 1 -> "Err(GoalCancelRejected)"
    [] o.tx = "sent" /\ o.value = 3 -> "Err(GoalCancelUnknownGoalID)"
    [] o.tx = "sent" /\ o.value = 2 -> "Err(GoalCancelAlreadyTerminated)"
    [] OTHER -> "panic"

\* the future gone wrong: map_err is missing, a dropped sender shows as the
\* oneshot's own Canceled
CancelFuture_canceled(o) ==
  CASE o.rx # "awaiting" -> "no future"
    [] o.tx = "held" -> "Pending"
    [] o.tx = "dropped" -> "Err(Canceled)"
    [] o.tx = "sent" /\ o.value = 0 -> "Ok"
    [] o.tx = "sent" /\ o.value = 1 -> "Err(GoalCancelRejected)"
    [] o.tx = "sent" /\ o.value = 2 -> "Err(GoalCancelUnknownGoalID)"
    [] o.tx = "sent" /\ o.value = 3 -> "Err(GoalCancelAlreadyTerminated)"
    [] OTHER -> "panic"

\* what the future returned by send_cancel_request yields when it is polled:
\* the receiver mapped by map_err and map ("no future": its consumer dropped it)
CancelFuture(o) ==
  CASE o.rx # "awaiting" -> "no future"
    [] o.tx = "held" -> "Pending"
    [] o.tx = "dropped" -> "Err(RCL_RET_CLIENT_INVALID)"
    [] o.tx = "sent" /\ o.value = 0 -> "Ok"
    [] o.tx = "sent" /\ o.value = 1 -> "Err(GoalCancelRejected)"
    [] o.tx = "sent" /\ o.value = 2 -> "Err(GoalCancelUnknownGoalID)"
    [] o.tx = "sent" /\ o.value = 3 -> "Err(GoalCancelAlreadyTerminated)"
    [] OTHER -> "panic"

\* what ran last: the operation, the branch it took and what it returned
Event(op, branch, result) == [op |-> op, branch |-> branch, result |-> result]

\* the sequence number the transport writes on a successful send: one more
\* than the sends it accepted on that sub-channel before
NextSeqNo(accepted) == accepted + 1
Accepted(reqs) == Cardinality({h \in DOMAIN reqs : reqs[h].result = "Ok"})

Live == lifecycle = "live" /\ ~panicked

Init ==
  /\ goal_response_channels = <<>>
  /\ cancel_response_channels = <<>>
  /\ feedback_senders = <<>>
  /\ result_requests = <<>>
  /\ result_senders = <<>>
  /\ goal_status = [g \in Goals |-> NoEntry]
  /\ goal_sinks = <<>>
  /\ cancel_reqs = <<>>
  /\ result_sinks = <<>>
  /\ mpsc = <<>>
  /\ issued = 0
  /\ result_seq = 0
  /\ lifecycle = "live"
  /\ panicked = FALSE
  /\ event = Event("new", "", "unit")

\* ------------------------------------------------- the caller's operations
\* goal submission (outside this file) sends the goal and wires the sink in
send_goal_request(seq_no) ==
  /\ Live /\ issued < MaxIssued
  /\ seq_no = NextSeqNo(Len(goal_sinks))
  /\ goal_sinks' = Append(goal_sinks, NewOneshot)
  /\ goal_response_channels' =
       Append(goal_response_channels, [key |-> seq_no, sender |-> Len(goal_sinks) + 1])
  /\ issued' = issued + 1
  /\ event' = Event("send_goal_request", "sent", "Ok")
  /\ UNCHANGED <<cancel_response_channels, feedback_senders, result_requests,
                 result_senders, goal_status, cancel_reqs, result_sinks, mpsc,
                 result_seq, lifecycle, panicked>>

\* the registrant of a goal's result pushes (uuid, sender) into result_senders
register_result_sender(uuid) ==
  /\ Live /\ issued < MaxIssued
  /\ ~any(result_senders, uuid)
  /\ result_sinks' = Append(result_sinks, NewOneshot @@ [goal |-> uuid])
  /\ result_senders' =
       Append(result_senders, [key |-> uuid, sender |-> Len(result_sinks) + 1])
  /\ issued' = issued + 1
  /\ event' = Event("register_result_sender", "", "unit")
  /\ UNCHANGED <<goal_response_channels, cancel_response_channels, feedback_senders,
                 result_requests, goal_status, goal_sinks, cancel_reqs, mpsc,
                 result_seq, lifecycle, panicked>>

\* the registrant of a goal's feedback pushes (uuid, sender) into feedback_senders
register_feedback_sender(uuid) ==
  /\ Live /\ issued < MaxIssued
  /\ ~any(feedback_senders, uuid)
  /\ mpsc' = Append(mpsc, [queue |-> <<>>, rx |-> "open"])
  /\ feedback_senders' = Append(feedback_senders, [key |-> uuid, sender |-> Len(mpsc) + 1])
  /\ issued' = issued + 1
  /\ event' = Event("register_feedback_sender", "", "unit")
  /\ UNCHANGED <<goal_response_channels, cancel_response_channels, result_requests,
                 result_senders, goal_status, goal_sinks, cancel_reqs, result_sinks,
                 result_seq, lifecycle, panicked>>

\* send_cancel_request gone wrong: the entry is pushed before the result of the
\* send is looked at
send_cancel_request_pushes_first(goal, ret, seq_no) ==
  /\ Live /\ issued < MaxIssued
  /\ issued' = issued + 1
  /\ cancel_response_channels' =
       Append(cancel_response_channels, [key |-> seq_no, sender |-> Len(cancel_reqs) + 1])
  /\ cancel_reqs' = Append(cancel_reqs,
       NewOneshot @@ [result |-> IF ret = "RCL_RET_OK" THEN "Ok" ELSE "Err", xmit |-> 1])
  /\ event' = Event("send_cancel_request",
                    IF ret = "RCL_RET_OK" THEN "sent" ELSE "send failed",
                    IF ret = "RCL_RET_OK" THEN "Ok" ELSE "Err")
  /\ UNCHANGED <<goal_response_channels, feedback_senders, result_requests,
                 result_senders, goal_status, goal_sinks, result_sinks, mpsc,
                 result_seq, lifecycle, panicked>>

\* send_cancel_request: Ok(future) and a pending entry on RCL_RET_OK, else Err
send_cancel_request(goal, ret, seq_no) ==
  /\ Live /\ issued < MaxIssued
  /\ issued' = issued + 1
  /\ IF ret = "RCL_RET_OK"
     THEN /\ seq_no = NextSeqNo(Accepted(cancel_reqs))
          /\ cancel_response_channels' =
               Append(cancel_response_channels,
                      [key |-> seq_no, sender |-> Len(cancel_reqs) + 1])
          /\ cancel_reqs' = Append(cancel_reqs, NewOneshot @@ [result |-> "Ok", xmit |-> 1])
          /\ event' = Event("send_cancel_request", "sent", "Ok")
     ELSE /\ cancel_reqs' = Append(cancel_reqs,
               [tx |-> "none", rx |-> "none", value |-> NoValue, sends |-> 0,
                result |-> "Err", xmit |-> 1])
          /\ event' = Event("send_cancel_request", "send failed", "Err")
          /\ UNCHANGED cancel_response_channels
  /\ UNCHANGED <<goal_response_channels, feedback_senders, result_requests,
                 result_senders, goal_status, goal_sinks, result_sinks, mpsc,
                 result_seq, lifecycle, panicked>>

\* send_result_request: a pending (seq_no, uuid) on RCL_RET_OK; returns () either way
send_result_request(uuid, ret, seq_no) ==
  /\ Live /\ issued < MaxIssued
  /\ issued' = issued + 1
  /\ IF ret = "RCL_RET_OK"
     THEN /\ seq_no = NextSeqNo(result_seq)
          /\ result_seq' = result_seq + 1
          /\ result_requests' = Append(result_requests, [key |-> seq_no, uuid |-> uuid])
          /\ event' = Event("send_result_request", "sent", "unit")
     ELSE /\ event' = Event("send_result_request", "send failed", "unit")
          /\ UNCHANGED <<result_requests, result_seq>>
  /\ UNCHANGED <<goal_response_channels, cancel_response_channels, feedback_senders,
                 result_senders, goal_status, goal_sinks, cancel_reqs, result_sinks,
                 mpsc, lifecycle, panicked>>

\* get_goal_status: the stored status, Unknown for a goal without entry
get_goal_status(uuid) ==
  IF goal_status[uuid] = NoEntry THEN "Unknown" ELSE goal_status[uuid]

\* ------------------------------------------------------------ the handlers
\* A handler whose rcl_action_take_* call does not return RCL_RET_OK does
\* nothing at all: every branch of it leaves the client as it was.
TakeFailed == UNCHANGED vars

\* handle_goal_response gone wrong: it looks the id up in the cancel table
handle_goal_response_in_cancel_table(ret, id, response) ==
  /\ Live
  /\ IF ret # "RCL_RET_OK" THEN TakeFailed
     ELSE /\ IF position(cancel_response_channels, id) # 0
             THEN LET idx == position(cancel_response_channels, id)
                      sender == cancel_response_channels[idx].sender
                  IN /\ cancel_response_channels' =
                          swap_remove(cancel_response_channels, idx)
                     /\ cancel_reqs' = [cancel_reqs EXCEPT ![sender] = Send(@, 0)]
                     /\ event' = Event("handle_goal_response", "match", "unit")
             ELSE /\ UNCHANGED <<cancel_response_channels, cancel_reqs>>
                  /\ event' = Event("handle_goal_response", "no such req id", "unit")
          /\ UNCHANGED <<goal_response_channels, feedback_senders, result_requests,
                         result_senders, goal_status, goal_sinks, result_sinks, mpsc,
                         issued, result_seq, lifecycle, panicked>>

\* handle_goal_response: take one response; the matching sink is removed and sent to
handle_goal_response(ret, id, response) ==
  /\ Live
  /\ IF ret # "RCL_RET_OK" THEN TakeFailed
     ELSE /\ IF position(goal_response_channels, id) # 0
             THEN LET idx == position(goal_response_channels, id)
                      sender == goal_response_channels[idx].sender
                  IN /\ goal_response_channels' = swap_remove(goal_response_channels, idx)
                     /\ goal_sinks' = [goal_sinks EXCEPT ![sender] = Send(@, response)]
                     /\ event' = Event("handle_goal_response", "match", "unit")
             ELSE /\ UNCHANGED <<goal_response_channels, goal_sinks>>
                  /\ event' = Event("handle_goal_response", "no such req id", "unit")
          /\ UNCHANGED <<cancel_response_channels, feedback_senders, result_requests,
                         result_senders, goal_status, cancel_reqs, result_sinks, mpsc,
                         issued, result_seq, lifecycle, panicked>>

\* handle_cancel_response gone wrong: the result of send is unwrapped
handle_cancel_response_unwraps(ret, id, return_code) ==
  /\ Live
  /\ IF ret # "RCL_RET_OK" THEN TakeFailed
     ELSE /\ IF position(cancel_response_channels, id) # 0
             THEN LET idx == position(cancel_response_channels, id)
                      sender == cancel_response_channels[idx].sender
                  IN /\ cancel_response_channels' =
                          swap_remove(cancel_response_channels, idx)
                     /\ cancel_reqs' = [cancel_reqs EXCEPT ![sender] = Send(@, return_code)]
                     /\ panicked' = (cancel_reqs[sender].rx # "awaiting")
                     /\ event' = Event("handle_cancel_response", "match",
                                       IF cancel_reqs[sender].rx # "awaiting"
                                       THEN "panic" ELSE "unit")
             ELSE /\ UNCHANGED <<cancel_response_channels, cancel_reqs, panicked>>
                  /\ event' = Event("handle_cancel_response", "no such req id", "unit")
          /\ UNCHANGED <<goal_response_channels, feedback_senders, result_requests,
                         result_senders, goal_status, goal_sinks, result_sinks, mpsc,
                         issued, result_seq, lifecycle>>

\* handle_cancel_response: take one response; the matching sink is removed and sent to
handle_cancel_response(ret, id, return_code) ==
  /\ Live
  /\ IF ret # "RCL_RET_OK" THEN TakeFailed
     ELSE /\ IF position(cancel_response_channels, id) # 0
             THEN LET idx == position(cancel_response_channels, id)
                      sender == cancel_response_channels[idx].sender
                  IN /\ cancel_response_channels' =
                          swap_remove(cancel_response_channels, idx)
                     /\ cancel_reqs' = [cancel_reqs EXCEPT ![sender] = Send(@, return_code)]
                     /\ event' = Event("handle_cancel_response", "match", "unit")
             ELSE /\ UNCHANGED <<cancel_response_channels, cancel_reqs>>
                  /\ event' = Event("handle_cancel_response", "no such req id", "unit")
          /\ UNCHANGED <<goal_response_channels, feedback_senders, result_requests,
                         result_senders, goal_status, goal_sinks, result_sinks, mpsc,
                         issued, result_seq, lifecycle, panicked>>

\* try_send gone wrong: a full buffer gives up its newest payload for the new one
try_send_replaces(ch, v) ==
  IF ch.rx = "open"
  THEN IF Len(ch.queue) < FeedbackCap
       THEN [ch EXCEPT !.queue = Append(@, v)]
       ELSE [ch EXCEPT !.queue = Append(SubSeq(@, 1, Len(@) - 1), v)]
  ELSE ch

\* mpsc::Sender::try_send: Err when the receiver is closed or the buffer is full
try_send(ch, v) ==
  IF ch.rx = "open" /\ Len(ch.queue) < FeedbackCap
  THEN [ch EXCEPT !.queue = Append(@, v)]
  ELSE ch

\* handle_feedback_msg gone wrong: a sender that could not send is removed
handle_feedback_msg_removes(ret, uuid, feedback) ==
  /\ Live
  /\ IF ret # "RCL_RET_OK" THEN TakeFailed
     ELSE LET msg_uuid == vec_to_uuid_bytes(uuid)
              idx == position(feedback_senders, msg_uuid)
              sender == feedback_senders[idx].sender
          IN /\ IF msg_uuid = "panic"
                THEN /\ panicked' = TRUE
                     /\ UNCHANGED <<mpsc, feedback_senders>>
                     /\ event' = Event("handle_feedback_msg", "bad uuid", "panic")
                ELSE IF idx = 0
                THEN /\ UNCHANGED <<mpsc, panicked, feedback_senders>>
                     /\ event' = Event("handle_feedback_msg", "no sender", "unit")
                ELSE /\ mpsc' = [mpsc EXCEPT ![sender] = try_send(@, feedback)]
                     /\ feedback_senders' =
                          IF try_send(mpsc[sender], feedback) = mpsc[sender]
                          THEN swap_remove(feedback_senders, idx)
                          ELSE feedback_senders
                     /\ UNCHANGED panicked
                     /\ event' = Event("handle_feedback_msg",
                                       IF try_send(mpsc[sender], feedback) = mpsc[sender]
                                       THEN "could not send" ELSE "sent", "unit")
             /\ UNCHANGED <<goal_response_channels, cancel_response_channels,
                            result_requests, result_senders,
                            goal_status, goal_sinks, cancel_reqs, result_sinks, issued,
                            result_seq, lifecycle>>

\* handle_feedback_msg: take one message; a non-blocking push into the goal's sink
handle_feedback_msg(ret, uuid, feedback) ==
  /\ Live
  /\ IF ret # "RCL_RET_OK" THEN TakeFailed
     ELSE LET msg_uuid == vec_to_uuid_bytes(uuid)
              idx == position(feedback_senders, msg_uuid)
              sender == feedback_senders[idx].sender
          IN /\ IF msg_uuid = "panic"
                THEN /\ panicked' = TRUE
                     /\ UNCHANGED mpsc
                     /\ event' = Event("handle_feedback_msg", "bad uuid", "panic")
                ELSE IF idx = 0
                THEN /\ UNCHANGED <<mpsc, panicked>>
                     /\ event' = Event("handle_feedback_msg", "no sender", "unit")
                ELSE /\ mpsc' = [mpsc EXCEPT ![sender] = try_send(@, feedback)]
                     /\ UNCHANGED panicked
                     /\ event' = Event("handle_feedback_msg",
                                       IF try_send(mpsc[sender], feedback) = mpsc[sender]
                                       THEN "could not send" ELSE "sent", "unit")
             /\ UNCHANGED <<goal_response_channels, cancel_response_channels,
                            feedback_senders, result_requests, result_senders,
                            goal_status, goal_sinks, cancel_reqs, result_sinks, issued,
                            result_seq, lifecycle>>

\* the loop gone wrong: the status is decoded before the check for a sender
RECURSIVE StatusLoop_decodes_first(_, _, _, _)
StatusLoop_decodes_first(arr, i, senders, gs) ==
  IF i > Len(arr) THEN [goal_status |-> gs, panicked |-> FALSE]
  ELSE LET uuid == vec_to_uuid_bytes(arr[i].uuid)
       IN IF uuid = "panic" THEN [goal_status |-> gs, panicked |-> TRUE]
          ELSE LET status == from_rcl(arr[i].status)
               IN IF status = "panic" THEN [goal_status |-> gs, panicked |-> TRUE]
                  ELSE IF ~any(senders, uuid)
                  THEN StatusLoop_decodes_first(arr, i + 1, senders, gs)
                  ELSE StatusLoop_decodes_first(arr, i + 1, senders,
                                                [gs EXCEPT ![uuid] = status])

\* the loop gone wrong: or_insert(status) without the assignment, an entry that
\* exists keeps its status
RECURSIVE StatusLoop_or_insert(_, _, _, _)
StatusLoop_or_insert(arr, i, senders, gs) ==
  IF i > Len(arr) THEN [goal_status |-> gs, panicked |-> FALSE]
  ELSE LET uuid == vec_to_uuid_bytes(arr[i].uuid)
       IN IF uuid = "panic" THEN [goal_status |-> gs, panicked |-> TRUE]
          ELSE IF ~any(senders, uuid) THEN StatusLoop_or_insert(arr, i + 1, senders, gs)
          ELSE LET status == from_rcl(arr[i].status)
               IN IF status = "panic" THEN [goal_status |-> gs, panicked |-> TRUE]
                  ELSE StatusLoop_or_insert(arr, i + 1, senders,
                         IF gs[uuid] = NoEntry THEN [gs EXCEPT ![uuid] = status] ELSE gs)

\* the loop gone wrong: the check for a registered result sender is missing
RECURSIVE StatusLoop_unfiltered(_, _, _, _)
StatusLoop_unfiltered(arr, i, senders, gs) ==
  IF i > Len(arr) THEN [goal_status |-> gs, panicked |-> FALSE]
  ELSE LET uuid == vec_to_uuid_bytes(arr[i].uuid)
       IN IF uuid = "panic" THEN [goal_status |-> gs, panicked |-> TRUE]
          ELSE LET status == from_rcl(arr[i].status)
               IN IF status = "panic" THEN [goal_status |-> gs, panicked |-> TRUE]
                  ELSE StatusLoop_unfiltered(arr, i + 1, senders,
                                             [gs EXCEPT ![uuid] = status])

\* the for loop of handle_status_msg from element i on: the status map after it,
\* and whether vec_to_uuid_bytes or from_rcl panicked on the way
RECURSIVE StatusLoop(_, _, _, _)
StatusLoop(arr, i, senders, gs) ==
  IF i > Len(arr) THEN [goal_status |-> gs, panicked |-> FALSE]
  ELSE LET uuid == vec_to_uuid_bytes(arr[i].uuid)
       IN IF uuid = "panic" THEN [goal_status |-> gs, panicked |-> TRUE]
          ELSE IF ~any(senders, uuid) THEN StatusLoop(arr, i + 1, senders, gs)
          ELSE LET status == from_rcl(arr[i].status)
               IN IF status = "panic" THEN [goal_status |-> gs, panicked |-> TRUE]
                  ELSE StatusLoop(arr, i + 1, senders, [gs EXCEPT ![uuid] = status])

\* handle_status_msg: take one GoalStatusArray and run the loop over its status_list
handle_status_msg(ret, arr) ==
  /\ Live
  /\ IF ret # "RCL_RET_OK" THEN TakeFailed
     ELSE LET after == StatusLoop(arr, 1, result_senders, goal_status)
          IN /\ goal_status' = after.goal_status
             /\ panicked' = after.panicked
             /\ event' = Event("handle_status_msg",
                               IF \E i \in 1..Len(arr) :
                                    /\ arr[i].uuid \in Goals
                                    /\ ~any(result_senders, arr[i].uuid)
                                    /\ arr[i].status \notin 0..6
                               THEN "skips an unknown status"
                               ELSE IF \E i \in 1..Len(arr) :
                                    arr[i].uuid \in Goals
                                      /\ ~any(result_senders, arr[i].uuid)
                               THEN "lists a goal without sender"
                               ELSE IF \E i, j \in 1..Len(arr) :
                                    i # j /\ arr[i].uuid = arr[j].uuid
                               THEN "lists a goal twice" ELSE "",
                               IF after.panicked THEN "panic" ELSE "unit")
             /\ UNCHANGED <<goal_response_channels, cancel_response_channels,
                            feedback_senders, result_requests, result_senders,
                            goal_sinks, cancel_reqs, result_sinks, mpsc, issued,
                            result_seq, lifecycle>>

\* handle_result_response gone wrong: it looks at the stored status of the goal,
\* not at the one in the response
handle_result_response_by_store(ret, id, status_code, result) ==
  /\ Live
  /\ IF ret # "RCL_RET_OK" THEN TakeFailed
     ELSE LET ridx == position(result_requests, id)
              uuid == result_requests[ridx].uuid
              sidx == position(result_senders, uuid)
              sender == result_senders[sidx].sender
              status == get_goal_status(uuid)
          IN /\ IF ridx = 0
                THEN /\ UNCHANGED <<result_requests, result_senders, result_sinks,
                                    panicked>>
                     /\ event' = Event("handle_result_response", "no such req id", "unit")
                ELSE /\ result_requests' = swap_remove(result_requests, ridx)
                     /\ IF sidx = 0
                        THEN /\ UNCHANGED <<result_senders, result_sinks, panicked>>
                             /\ event' = Event("handle_result_response", "no sender",
                                               "unit")
                        ELSE /\ result_senders' = swap_remove(result_senders, sidx)
                             /\ result_sinks' =
                                  [result_sinks EXCEPT ![sender] =
                                     IF status = "Succeeded" THEN Send(@, result)
                                                              ELSE DropSender(@)]
                             /\ panicked' = (status = "panic")
                             /\ event' = Event("handle_result_response",
                                  IF status = "Succeeded" THEN "send"
                                  ELSE IF status = "panic" THEN "bad status"
                                  ELSE "goal status failed",
                                  IF status = "panic" THEN "panic" ELSE "unit")
             /\ UNCHANGED <<goal_response_channels, cancel_response_channels,
                            feedback_senders, goal_status, goal_sinks, cancel_reqs,
                            mpsc, issued, result_seq, lifecycle>>

\* handle_result_response gone wrong: with the sender it removes the goal's
\* stored status
handle_result_response_forgets(ret, id, status_code, result) ==
  /\ Live
  /\ IF ret # "RCL_RET_OK" THEN TakeFailed
     ELSE LET ridx == position(result_requests, id)
              uuid == result_requests[ridx].uuid
              sidx == position(result_senders, uuid)
              sender == result_senders[sidx].sender
              status == from_rcl(status_code)
          IN /\ IF ridx = 0
                THEN /\ UNCHANGED <<result_requests, result_senders, result_sinks,
                                    panicked, goal_status>>
                     /\ event' = Event("handle_result_response", "no such req id", "unit")
                ELSE /\ result_requests' = swap_remove(result_requests, ridx)
                     /\ goal_status' = IF sidx = 0 THEN goal_status
                                       ELSE [goal_status EXCEPT ![uuid] = NoEntry]
                     /\ IF sidx = 0
                        THEN /\ UNCHANGED <<result_senders, result_sinks, panicked>>
                             /\ event' = Event("handle_result_response", "no sender",
                                               "unit")
                        ELSE /\ result_senders' = swap_remove(result_senders, sidx)
                             /\ result_sinks' =
                                  [result_sinks EXCEPT ![sender] =
                                     IF status = "Succeeded" THEN Send(@, result)
                                                              ELSE DropSender(@)]
                             /\ panicked' = (status = "panic")
                             /\ event' = Event("handle_result_response",
                                  IF status = "Succeeded" THEN "send"
                                  ELSE IF status = "panic" THEN "bad status"
                                  ELSE "goal status failed",
                                  IF status = "panic" THEN "panic" ELSE "unit")
             /\ UNCHANGED <<goal_response_channels, cancel_response_channels,
                            feedback_senders, goal_sinks, cancel_reqs,
                            mpsc, issued, result_seq, lifecycle>>

\* handle_result_response gone wrong: the status is decoded before the sender
\* is looked up
handle_result_response_decodes_first(ret, id, status_code, result) ==
  /\ Live
  /\ IF ret # "RCL_RET_OK" THEN TakeFailed
     ELSE LET ridx == position(result_requests, id)
              uuid == result_requests[ridx].uuid
              sidx == position(result_senders, uuid)
              sender == result_senders[sidx].sender
              status == from_rcl(status_code)
          IN /\ IF ridx = 0
                THEN /\ UNCHANGED <<result_requests, result_senders, result_sinks,
                                    panicked>>
                     /\ event' = Event("handle_result_response", "no such req id", "unit")
                ELSE /\ result_requests' = swap_remove(result_requests, ridx)
                     /\ IF sidx = 0
                        THEN /\ UNCHANGED <<result_senders, result_sinks>>
                             /\ panicked' = (status = "panic")
                             /\ event' = Event("handle_result_response", "no sender",
                                               IF status = "panic" THEN "panic"
                                               ELSE "unit")
                        ELSE /\ result_senders' = swap_remove(result_senders, sidx)
                             /\ result_sinks' =
                                  [result_sinks EXCEPT ![sender] =
                                     IF status = "Succeeded" THEN Send(@, result)
                                                              ELSE DropSender(@)]
                             /\ panicked' = (status = "panic")
                             /\ event' = Event("handle_result_response",
                                  IF status = "Succeeded" THEN "send"
                                  ELSE IF status = "panic" THEN "bad status"
                                  ELSE "goal status failed",
                                  IF status = "panic" THEN "panic" ELSE "unit")
             /\ UNCHANGED <<goal_response_channels, cancel_response_channels,
                            feedback_senders, goal_status, goal_sinks, cancel_reqs,
                            mpsc, issued, result_seq, lifecycle>>

\* handle_result_response: take one response; the pending request names the goal,
\* whose sink is removed and sent the result only when the status is Succeeded
handle_result_response(ret, id, status_code, result) ==
  /\ Live
  /\ IF ret # "RCL_RET_OK" THEN TakeFailed
     ELSE LET ridx == position(result_requests, id)
              uuid == result_requests[ridx].uuid
              sidx == position(result_senders, uuid)
              sender == result_senders[sidx].sender
              status == from_rcl(status_code)
          IN /\ IF ridx = 0
                THEN /\ UNCHANGED <<result_requests, result_senders, result_sinks,
                                    panicked>>
                     /\ event' = Event("handle_result_response", "no such req id", "unit")
                ELSE /\ result_requests' = swap_remove(result_requests, ridx)
                     /\ IF sidx = 0
                        THEN /\ UNCHANGED <<result_senders, result_sinks, panicked>>
                             /\ event' = Event("handle_result_response", "no sender",
                                               "unit")
                        ELSE /\ result_senders' = swap_remove(result_senders, sidx)
                             /\ result_sinks' =
                                  [result_sinks EXCEPT ![sender] =
                                     IF status = "Succeeded" THEN Send(@, result)
                                                              ELSE DropSender(@)]
                             /\ panicked' = (status = "panic")
                             /\ event' = Event("handle_result_response",
                                  IF status = "Succeeded" THEN "send"
                                  ELSE IF status = "panic" THEN "bad status"
                                  ELSE "goal status failed",
                                  IF status = "panic" THEN "panic" ELSE "unit")
             /\ UNCHANGED <<goal_response_channels, cancel_response_channels,
                            feedback_senders, goal_status, goal_sinks, cancel_reqs,
                            mpsc, issued, result_seq, lifecycle>>

\* destroy: rcl_action_client_fini on the handle; the tables are not touched
destroy ==
  /\ Live
  /\ lifecycle' = "finalized"
  /\ event' = Event("destroy", "", "unit")
  /\ UNCHANGED <<goal_response_channels, cancel_response_channels, feedback_senders,
                 result_requests, result_senders, goal_status, goal_sinks, cancel_reqs,
                 result_sinks, mpsc, issued, result_seq, panicked>>

\* the owner lets go of the destroyed client: every field is dropped, and with
\* the Vecs every sender they still hold
drop_client ==
  /\ lifecycle = "finalized"
  /\ lifecycle' = "dropped"
  /\ goal_sinks' = [h \in DOMAIN goal_sinks |-> DropSender(goal_sinks[h])]
  /\ cancel_reqs' = [h \in DOMAIN cancel_reqs |-> DropSender(cancel_reqs[h])]
  /\ result_sinks' = [h \in DOMAIN result_sinks |-> DropSender(result_sinks[h])]
  /\ goal_response_channels' = <<>>
  /\ cancel_response_channels' = <<>>
  /\ feedback_senders' = <<>>
  /\ result_requests' = <<>>
  /\ result_senders' = <<>>
  /\ goal_status' = [g \in Goals |-> NoEntry]
  /\ event' = Event("drop", "", "unit")
  /\ UNCHANGED <<mpsc, issued, result_seq, panicked>>

\* --------------------------------------------------------- the consumers
\* the task awaiting a goal response, a cancel future or a result drops its
\* receiver before anything was sent
drop_receiver(kind, h) ==
  /\ Live
  /\ event' = Event("drop_receiver", kind, "unit")
  /\ CASE kind = "goal" ->
            /\ goal_sinks[h].tx = "held" /\ goal_sinks[h].rx = "awaiting"
            /\ goal_sinks' = [goal_sinks EXCEPT ![h].rx = "gone"]
            /\ UNCHANGED <<cancel_reqs, result_sinks>>
       [] kind = "cancel" ->
            /\ cancel_reqs[h].tx = "held" /\ cancel_reqs[h].rx = "awaiting"
            /\ cancel_reqs' = [cancel_reqs EXCEPT ![h].rx = "gone"]
            /\ UNCHANGED <<goal_sinks, result_sinks>>
       [] kind = "result" ->
            /\ result_sinks[h].tx = "held" /\ result_sinks[h].rx = "awaiting"
            /\ result_sinks' = [result_sinks EXCEPT ![h].rx = "gone"]
            /\ UNCHANGED <<goal_sinks, cancel_reqs>>
  /\ UNCHANGED <<goal_response_channels, cancel_response_channels, feedback_senders,
                 result_requests, result_senders, goal_status, mpsc, issued,
                 result_seq, lifecycle, panicked>>

\* the task draining a feedback channel takes the oldest payload
recv_feedback(h) ==
  /\ Live
  /\ mpsc[h].queue # <<>>
  /\ mpsc' = [mpsc EXCEPT ![h].queue = Tail(@)]
  /\ event' = Event("recv_feedback", "", "unit")
  /\ UNCHANGED <<goal_response_channels, cancel_response_channels, feedback_senders,
                 result_requests, result_senders, goal_status, goal_sinks, cancel_reqs,
                 result_sinks, issued, result_seq, lifecycle, panicked>>

\* a status_list entry: a goal with a status code, or an entry whose uuid has
\* the wrong length (its status is never read)
StatusPairs == [uuid : Goals, status : StatusCodes] \cup [uuid : {BadUuid}, status : {0}]
\* every status_list of at most MaxStatusList entries
StatusArrays == UNION {[1..n -> StatusPairs] : n \in 0..MaxStatusList}

\* a status_list of at most one entry
ShortStatusArrays == {arr \in StatusArrays : Len(arr) <= 1}

\* the goal-submit and cancel sub-channels: requests, responses, and consumers
\* that give up
GoalCancelNext ==
  \/ send_goal_request(NextSeqNo(Len(goal_sinks)))
  \/ \E g \in Goals : send_cancel_request(g, "RCL_RET_OK", NextSeqNo(Accepted(cancel_reqs)))
  \/ \E g \in Goals : send_cancel_request(g, "RCL_RET_ERROR", 0)
  \/ \E s \in SeqNos, r \in GoalResponses : handle_goal_response("RCL_RET_OK", s, r)
  \/ handle_goal_response("RCL_RET_ERROR", 0, NoValue)
  \/ \E s \in SeqNos, c \in CancelCodes : handle_cancel_response("RCL_RET_OK", s, c)
  \/ handle_cancel_response("RCL_RET_ERROR", 0, 0)
  \/ \E h \in DOMAIN goal_sinks : drop_receiver("goal", h)
  \/ \E h \in DOMAIN cancel_reqs : drop_receiver("cancel", h)

\* the result sub-channel, apart from the status broadcasts
ResultNext ==
  \/ \E g \in Goals : register_result_sender(g)
  \/ \E g \in Goals : send_result_request(g, "RCL_RET_OK", NextSeqNo(result_seq))
  \/ \E g \in Goals : send_result_request(g, "RCL_RET_ERROR", 0)
  \/ \E s \in SeqNos, c \in StatusCodes, p \in Payloads :
       handle_result_response("RCL_RET_OK", s, c, p)
  \/ handle_result_response("RCL_RET_ERROR", 0, 0, NoValue)
  \/ handle_status_msg("RCL_RET_ERROR", <<>>)
  \/ \E h \in DOMAIN result_sinks : drop_receiver("result", h)

\* the feedback stream
FeedbackNext ==
  \/ \E g \in Goals : register_feedback_sender(g)
  \/ \E u \in WireUuids, p \in Payloads : handle_feedback_msg("RCL_RET_OK", u, p)
  \/ handle_feedback_msg("RCL_RET_ERROR", NoGoal, NoValue)
  \/ \E h \in DOMAIN mpsc : recv_feedback(h)

Teardown == destroy \/ drop_client

\* the whole client; a status broadcast lists at most one goal
Next ==
  \/ GoalCancelNext
  \/ ResultNext
  \/ \E arr \in ShortStatusArrays : handle_status_msg("RCL_RET_OK", arr)
  \/ FeedbackNext
  \/ Teardown

Spec == Init /\ [][Next]_vars

\* a client used for goal submission and cancellation only
SpecGoalCancel == Init /\ [][GoalCancelNext \/ Teardown]_vars

\* a client used for results only; a status broadcast lists up to MaxStatusList
\* goals
ResultOnlyNext ==
  \/ ResultNext
  \/ \E arr \in StatusArrays : handle_status_msg("RCL_RET_OK", arr)
  \/ Teardown

SpecResult == Init /\ [][ResultOnlyNext]_vars

\* status lists of at most one entry, which carries any code of AllStatusCodes
WideStatusPairs ==
  [uuid : Goals, status : AllStatusCodes] \cup [uuid : {BadUuid}, status : {0}]
WideStatusArrays == {<<>>} \cup {<<pair>> : pair \in WideStatusPairs}
\* status lists of two entries, each Executing or Aborted
TwoStatusArrays ==
  {<<first, second>> : first, second \in [uuid : Goals, status : {2, 6}]}

\* the status topic with every status code, next to result requests and responses
StatusNext ==
  \/ \E g \in Goals : register_result_sender(g)
  \/ \E g \in Goals : send_result_request(g, "RCL_RET_OK", NextSeqNo(result_seq))
  \/ \E s \in SeqNos, c \in StatusCodes, p \in Payloads :
       handle_result_response("RCL_RET_OK", s, c, p)
  \/ \E arr \in WideStatusArrays \cup TwoStatusArrays :
       handle_status_msg("RCL_RET_OK", arr)
  \/ handle_status_msg("RCL_RET_ERROR", <<>>)
  \/ Teardown

SpecStatus == Init /\ [][StatusNext]_vars

\* a client that only streams feedback
SpecFeedback == Init /\ [][FeedbackNext \/ Teardown]_vars

\* requests, responses and teardown, where the owner that destroyed the client
\* goes on to drop it
TeardownNext ==
  \/ GoalCancelNext
  \/ ResultNext
  \/ Teardown

SpecTeardown == Init /\ [][TeardownNext]_vars /\ WF_vars(drop_client)

\* ------------------------------------------------------------------ claims
Entries(v) == {v[i] : i \in 1..Len(v)}
Senders(v) == {v[i].sender : i \in 1..Len(v)}
NoDup(v) == \A i, j \in 1..Len(v) : v[i].key = v[j].key => i = j
EntryOf(v, key) == v[CHOOSE i \in 1..Len(v) : v[i].key = key]
Held(pool) == {h \in DOMAIN pool : pool[h].tx = "held"}

\* C1: every goal response whose sequence number is pending resolves the one
\* entry with that number, with that response, and no other sink; no goal sink
\* is ever sent to twice; the senders still pending are exactly those in the
\* table, so the table is empty once every pending entry got its response.
C1_EachResponseResolvesItsEntry ==
  /\ [](/\ \A h \in DOMAIN goal_sinks : goal_sinks[h].sends <= 1
        /\ Senders(goal_response_channels) = Held(goal_sinks)
        /\ Len(goal_response_channels) = Cardinality(Held(goal_sinks)))
  /\ [][\A id \in Keys(goal_response_channels), r \in GoalResponses :
          (event'.op = "handle_goal_response"
             /\ handle_goal_response("RCL_RET_OK", id, r))
          => LET h == EntryOf(goal_response_channels, id).sender
             IN /\ goal_sinks[h].sends = 0
                /\ goal_sinks'[h].sends = 1
                /\ goal_sinks'[h].tx \in {"sent", "failed"}
                /\ goal_sinks[h].rx = "awaiting" =>
                     goal_sinks'[h].tx = "sent" /\ goal_sinks'[h].value = r
                /\ \A o \in DOMAIN goal_sinks : o # h => goal_sinks'[o] = goal_sinks[o]
                /\ Keys(goal_response_channels') = Keys(goal_response_channels) \ {id}
                /\ Len(goal_response_channels') = Len(goal_response_channels) - 1]_vars

\* three goals were submitted, each got its own response and the table is empty
C1_Witness ==
  /\ Len(goal_sinks) = 3
  /\ goal_response_channels = <<>>
  /\ \A h \in DOMAIN goal_sinks : goal_sinks[h].tx = "sent" /\ goal_sinks[h].sends = 1
  /\ goal_sinks[1].value = "accepted"
  /\ goal_sinks[2].value = "rejected"
  /\ goal_sinks[3].value = "accepted"

\* C2: no pending table ever holds two entries with one sequence number (the
\* transport numbers the requests of a sub-channel apart), and a response that
\* matches removes its entry and no other in the same step.
C2_OneEntryPerIdRemovedOnMatch ==
  /\ [](/\ NoDup(goal_response_channels)
        /\ NoDup(cancel_response_channels)
        /\ NoDup(result_requests))
  /\ [][/\ \A id \in Keys(goal_response_channels) :
             (event'.op = "handle_goal_response"
                /\ \E r \in GoalResponses : handle_goal_response("RCL_RET_OK", id, r))
             => /\ Entries(goal_response_channels') =
                     Entries(goal_response_channels) \
                       {EntryOf(goal_response_channels, id)}
                /\ Len(goal_response_channels') = Len(goal_response_channels) - 1
        /\ \A id \in Keys(cancel_response_channels) :
             (event'.op = "handle_cancel_response"
                /\ \E c \in CancelCodes : handle_cancel_response("RCL_RET_OK", id, c))
             => /\ Entries(cancel_response_channels') =
                     Entries(cancel_response_channels) \
                       {EntryOf(cancel_response_channels, id)}
                /\ Len(cancel_response_channels') = Len(cancel_response_channels) - 1
        /\ \A id \in Keys(result_requests) :
             (event'.op = "handle_result_response"
                /\ \E c \in StatusCodes, p \in Payloads :
                     handle_result_response("RCL_RET_OK", id, c, p))
             => /\ Entries(result_requests') =
                     Entries(result_requests) \ {EntryOf(result_requests, id)}
                /\ Len(result_requests') = Len(result_requests) - 1]_vars

\* of two pending cancel requests the older one was just matched and removed
C2_Witness ==
  /\ event.op = "handle_cancel_response" /\ event.branch = "match"
  /\ Len(cancel_reqs) = 2
  /\ Len(cancel_response_channels) = 1
  /\ cancel_response_channels[1].key = 2
  /\ cancel_reqs[1].tx = "sent"

\* C3: a response whose sequence number is not pending on its sub-channel
\* changes no table, resolves no sink and does not panic.
C3_UnknownIdChangesNothing ==
  [][\/ UNCHANGED <<tables, sinks, panicked, lifecycle>>
     \/ /\ ~ \E id \in SeqNos \ Keys(goal_response_channels), r \in GoalResponses :
               event'.op = "handle_goal_response"
                 /\ handle_goal_response("RCL_RET_OK", id, r)
        /\ ~ \E id \in SeqNos \ Keys(cancel_response_channels), c \in CancelCodes :
               event'.op = "handle_cancel_response"
                 /\ handle_cancel_response("RCL_RET_OK", id, c)
        /\ ~ \E id \in SeqNos \ Keys(result_requests), c \in StatusCodes,
                p \in Payloads :
               event'.op = "handle_result_response"
                 /\ handle_result_response("RCL_RET_OK", id, c, p)]_vars

\* a goal response with an unknown number was ignored while a goal, a cancel
\* request with sequence number 1 and a result sink were pending
C3_Witness ==
  /\ event.op = "handle_goal_response" /\ event.branch = "no such req id"
  /\ Len(goal_response_channels) = 1
  /\ Keys(cancel_response_channels) = {1}
  /\ Len(result_senders) = 1
  /\ ~panicked

\* C4: a cancel response handled while the consumer still awaits makes the
\* future yield by its return code: 0 Ok, 1 Rejected, 2 UnknownGoalID,
\* 3 AlreadyTerminated; any other code yields none of them but a panic.
CancelOutcomeOf(code) ==
  CASE code = 0 -> "Ok"
    [] code = 1 -> "Err(GoalCancelRejected)"
    [] code = 2 -> "Err(GoalCancelUnknownGoalID)"
    [] code = 3 -> "Err(GoalCancelAlreadyTerminated)"
    [] OTHER -> "panic"

C4_CancelOutcomeByCode ==
  /\ [](\A h \in DOMAIN cancel_reqs :
          cancel_reqs[h].tx = "sent" /\ cancel_reqs[h].rx = "awaiting"
          => CancelFuture(cancel_reqs[h]) = CancelOutcomeOf(cancel_reqs[h].value))
  /\ [][\A id \in Keys(cancel_response_channels), c \in CancelCodes :
          (event'.op = "handle_cancel_response"
             /\ handle_cancel_response("RCL_RET_OK", id, c)
             /\ cancel_reqs[EntryOf(cancel_response_channels, id).sender].rx = "awaiting")
          => CancelFuture(cancel_reqs'[EntryOf(cancel_response_channels, id).sender])
               = CancelOutcomeOf(c)]_vars

\* three cancel requests were answered with codes 1, 2 and 4
C4_Witness ==
  /\ Len(cancel_reqs) = 3
  /\ \A h \in 1..3 : cancel_reqs[h].tx = "sent" /\ cancel_reqs[h].rx = "awaiting"
  /\ cancel_reqs[1].value = 1
  /\ CancelFuture(cancel_reqs[1]) = "Err(GoalCancelRejected)"
  /\ cancel_reqs[2].value = 2
  /\ CancelFuture(cancel_reqs[2]) = "Err(GoalCancelUnknownGoalID)"
  /\ cancel_reqs[3].value = 4
  /\ CancelFuture(cancel_reqs[3]) = "panic"

\* C5: a result sink is sent a payload only by a handle_result_response step
\* whose response carries status 4 (Succeeded) and whose pending request names
\* the sink's goal, at most once, and the payload sent is the response's; a
\* response with any other status drops the sink's sender with nothing sent.
C5_ResultOnlyOnSucceeded ==
  /\ [](\A h \in DOMAIN result_sinks :
          /\ result_sinks[h].sends <= 1
          /\ result_sinks[h].tx = "dropped"
               => result_sinks[h].sends = 0 /\ result_sinks[h].value = NoValue)
  /\ [][/\ \A h \in DOMAIN result_sinks :
             \/ /\ result_sinks'[h].sends = result_sinks[h].sends
                /\ result_sinks'[h].value = result_sinks[h].value
                /\ result_sinks[h].tx = "dropped" => result_sinks'[h].tx = "dropped"
             \/ /\ event'.op = "handle_result_response"
                /\ result_sinks[h].sends = 0 /\ result_sinks'[h].sends = 1
                /\ \E id \in Keys(result_requests), p \in Payloads :
                     /\ EntryOf(result_requests, id).uuid = result_sinks[h].goal
                     /\ handle_result_response("RCL_RET_OK", id, 4, p)
                     /\ result_sinks[h].rx = "awaiting"
                          => result_sinks'[h].tx = "sent" /\ result_sinks'[h].value = p
        /\ \A id \in Keys(result_requests), c \in StatusCodes \ {4}, p \in Payloads :
             (event'.op = "handle_result_response"
                /\ handle_result_response("RCL_RET_OK", id, c, p)
                /\ any(result_senders, EntryOf(result_requests, id).uuid))
             => LET h == EntryOf(result_senders, EntryOf(result_requests, id).uuid).sender
                IN /\ result_sinks'[h].tx = "dropped"
                   /\ result_sinks'[h].sends = 0
                   /\ result_sinks'[h].value = NoValue]_vars

\* the status broadcast marked g1 Aborted, then its result response came with
\* status 6: the sink was dropped with nothing sent
C5_Witness ==
  /\ event.op = "handle_result_response" /\ event.branch = "goal status failed"
  /\ goal_status["g1"] = "Aborted"
  /\ Len(result_sinks) = 1
  /\ result_sinks[1].goal = "g1"
  /\ result_sinks[1].tx = "dropped" /\ result_sinks[1].sends = 0
  /\ result_senders = <<>> /\ result_requests = <<>>

\* C6: goal_status gets or changes an entry for a goal only in a
\* handle_status_msg step whose list has a pair for that goal while the goal has
\* an entry in result_senders; a pair of a goal without one changes nothing.
C6_StatusOnlyForRegisteredGoals ==
  [][\A g \in Goals :
       \/ goal_status'[g] = goal_status[g]
       \/ event'.op = "drop" /\ goal_status'[g] = NoEntry
       \/ /\ event'.op = "handle_status_msg"
          /\ any(result_senders, g)
          /\ \E arr \in StatusArrays :
               /\ \E i \in 1..Len(arr) : arr[i].uuid = g
               /\ handle_status_msg("RCL_RET_OK", arr)]_vars

\* a broadcast that listed a goal without result sender: g1, registered, is
\* recorded, g2 is not
C6_Witness ==
  /\ event.op = "handle_status_msg"
  /\ event.branch = "lists a goal without sender"
  /\ any(result_senders, "g1") /\ ~any(result_senders, "g2")
  /\ goal_status["g1"] = "Executing"
  /\ goal_status["g2"] = NoEntry

\* C7: a send_cancel_request whose transport send fails returns Err, makes no
\* channel and leaves every table and every sink as it was.
C7_FailedCancelSendRegistersNothing ==
  [][\A g \in Goals :
       (event'.op = "send_cancel_request"
          /\ send_cancel_request(g, "RCL_RET_ERROR", 0))
       => /\ event'.result = "Err"
          /\ UNCHANGED <<tables, goal_sinks, result_sinks, mpsc>>
          /\ Len(cancel_reqs') = Len(cancel_reqs) + 1
          /\ cancel_reqs'[Len(cancel_reqs')].result = "Err"
          /\ cancel_reqs'[Len(cancel_reqs')].tx = "none"
          /\ \A h \in DOMAIN cancel_reqs : cancel_reqs'[h] = cancel_reqs[h]]_vars

\* a cancel send failed while an earlier cancel request was pending
C7_Witness ==
  /\ event.op = "send_cancel_request" /\ event.result = "Err"
  /\ Len(cancel_reqs) = 2
  /\ cancel_reqs[1].tx = "held"
  /\ cancel_reqs[2].result = "Err"
  /\ Len(cancel_response_channels) = 1

\* C8: as the claim has it, a send_result_request whose transport send fails
\* reports the failure to its caller and adds no entry, and one whose send
\* succeeds appends exactly the entry (sequence number, goal id).
C8_ResultRequestFailureReported ==
  [][\A g \in Goals :
       event'.op = "send_result_request"
       => /\ send_result_request(g, "RCL_RET_ERROR", 0)
               => event'.result = "Err" /\ UNCHANGED result_requests
          /\ send_result_request(g, "RCL_RET_OK", NextSeqNo(result_seq))
               => result_requests' =
                    Append(result_requests, [key |-> NextSeqNo(result_seq), uuid |-> g])]_vars

\* C9: a cancel request is pending from its send on, or a transport error
\* that never was pending; it gets an outcome only while pending, the outcome is
\* one of Accepted, Rejected, UnknownGoalId, AlreadyTerminated, ClientInvalid,
\* and what its future yields never changes once it yields something; its
\* sink is sent to at most once and the request is transmitted once.
CancelOutcome(r) ==
  IF r.result = "Err" THEN "TransportError"
  ELSE CASE CancelFuture(r) = "Ok" -> "Accepted"
         [] CancelFuture(r) = "Err(GoalCancelRejected)" -> "Rejected"
         [] CancelFuture(r) = "Err(GoalCancelUnknownGoalID)" -> "UnknownGoalId"
         [] CancelFuture(r) = "Err(GoalCancelAlreadyTerminated)" -> "AlreadyTerminated"
         [] CancelFuture(r) = "Err(RCL_RET_CLIENT_INVALID)" -> "ClientInvalid"
         [] OTHER -> "none"

C9_CancelRequestLifecycle ==
  /\ [](\A h \in DOMAIN cancel_reqs :
          /\ cancel_reqs[h].sends <= 1
          /\ cancel_reqs[h].xmit = 1
          /\ cancel_reqs[h].result = "Err"
               => /\ cancel_reqs[h].tx = "none"
                  /\ h \notin Senders(cancel_response_channels)
          /\ h \in Senders(cancel_response_channels) <=> cancel_reqs[h].tx = "held")
  /\ [][/\ \A h \in DOMAIN cancel_reqs' \ DOMAIN cancel_reqs :
             \/ cancel_reqs'[h].tx = "held" /\ CancelOutcome(cancel_reqs'[h]) = "none"
             \/ CancelOutcome(cancel_reqs'[h]) = "TransportError"
        /\ \A h \in DOMAIN cancel_reqs :
             \/ cancel_reqs'[h] = cancel_reqs[h]
             \/ /\ cancel_reqs[h].tx = "held"
                /\ CancelFuture(cancel_reqs[h]) \in {"Pending", "no future"}
                /\ CancelOutcome(cancel_reqs[h]) = "none"
                /\ CancelOutcome(cancel_reqs'[h]) \in
                     {"none", "Accepted", "Rejected", "UnknownGoalId",
                      "AlreadyTerminated", "ClientInvalid"}]_vars

\* after the client was dropped: one request was rejected, one failed to send,
\* one was still pending and now yields ClientInvalid
C9_Witness ==
  /\ lifecycle = "dropped"
  /\ Len(cancel_reqs) = 3
  /\ \E a, b, c \in DOMAIN cancel_reqs :
       /\ CancelOutcome(cancel_reqs[a]) = "Rejected"
       /\ CancelOutcome(cancel_reqs[b]) = "TransportError"
       /\ CancelOutcome(cancel_reqs[c]) = "ClientInvalid"

\* C10: a cancel sink or a result sink that is pending stays pending, entry and
\* sender, in every step but a handle_cancel_response (for a cancel sink) or a
\* handle_result_response (for a result sink) whose id is the one of its own
\* request, or the drop of the client.
C10_PendingUntilOwnResponse ==
  [][/\ \A h \in Held(cancel_reqs) :
          \/ cancel_reqs'[h].tx = "held" /\ h \in Senders(cancel_response_channels')
          \/ event'.op = "drop"
          \/ /\ event'.op = "handle_cancel_response"
             /\ \E id \in Keys(cancel_response_channels), c \in CancelCodes :
                  /\ EntryOf(cancel_response_channels, id).sender = h
                  /\ handle_cancel_response("RCL_RET_OK", id, c)
     /\ \A h \in Held(result_sinks) :
          \/ result_sinks'[h].tx = "held" /\ h \in Senders(result_senders')
          \/ event'.op = "drop"
          \/ /\ event'.op = "handle_result_response"
             /\ \E id \in Keys(result_requests), c \in StatusCodes, p \in Payloads :
                  /\ EntryOf(result_requests, id).uuid = result_sinks[h].goal
                  /\ handle_result_response("RCL_RET_OK", id, c, p)]_vars

\* a cancel response with an id of no pending request was handled: the cancel
\* request and the result sink are pending as before
C10_Witness ==
  /\ event.op = "handle_cancel_response" /\ event.branch = "no such req id"
  /\ Len(cancel_response_channels) = 1
  /\ cancel_reqs[cancel_response_channels[1].sender].tx = "held"
  /\ Len(result_senders) = 1
  /\ result_sinks[result_senders[1].sender].tx = "held"
  /\ Len(result_requests) = 1

C12_ResultSinkRemovedOnce ==
  [][\A h \in DOMAIN result_sinks :
       \/ /\ h \in Senders(result_senders) /\ h \in Senders(result_senders')
          /\ result_sinks'[h].tx = "held" /\ result_sinks'[h].sends = 0
       \/ /\ h \notin Senders(result_senders) /\ h \notin Senders(result_senders')
          /\ result_sinks'[h] = result_sinks[h]
       \/ /\ h \in Senders(result_senders) /\ h \notin Senders(result_senders')
          /\ \/ drop_client
             \/ /\ event'.op = "handle_result_response"
                /\ \E id \in Keys(result_requests), c \in StatusCodes, p \in Payloads :
                     /\ EntryOf(result_requests, id).uuid = result_sinks[h].goal
                     /\ handle_result_response("RCL_RET_OK", id, c, p)
                     /\ c = 4 => /\ result_sinks'[h].sends = 1
                                 /\ result_sinks[h].rx = "awaiting"
                                      => /\ result_sinks'[h].tx = "sent"
                                         /\ result_sinks'[h].value = p
                     /\ c # 4 => /\ result_sinks'[h].tx = "dropped"
                                 /\ result_sinks'[h].sends = 0]_vars

\* g1's sink was delivered to and removed; a second response, for another
\* request for g1, found no sink and left the delivered one as it was
C12_Witness ==
  /\ event.op = "handle_result_response" /\ event.branch = "no sender"
  /\ Len(result_sinks) = 1
  /\ result_sinks[1].goal = "g1"
  /\ result_sinks[1].tx = "sent" /\ result_sinks[1].sends = 1
  /\ result_sinks[1].value = "p1"
  /\ result_senders = <<>> /\ result_requests = <<>>

\* C13: feedback for a goal whose sink is full is dropped: the step leaves
\* every queue as it was, returns without a panic, and a later feedback for the
\* goal is queued as soon as the sink has room.
C13_FullFeedbackSinkDrops ==
  [][\A g \in Keys(feedback_senders), p \in Payloads :
       (event'.op = "handle_feedback_msg" /\ handle_feedback_msg("RCL_RET_OK", g, p))
       => LET h == EntryOf(feedback_senders, g).sender
          IN /\ ~panicked' /\ event'.result = "unit"
             /\ UNCHANGED feedback_senders
             /\ Len(mpsc[h].queue) >= FeedbackCap => mpsc' = mpsc
             /\ (Len(mpsc[h].queue) < FeedbackCap /\ mpsc[h].rx = "open")
                  => mpsc'[h].queue = Append(mpsc[h].queue, p)]_vars

\* a feedback was dropped at g1's full sink: the payload queued before is
\* still the only one
C13_Witness ==
  /\ event.op = "handle_feedback_msg" /\ event.branch = "could not send"
  /\ Len(feedback_senders) = 1 /\ feedback_senders[1].key = "g1"
  /\ mpsc[1].rx = "open"
  /\ Len(mpsc[1].queue) = FeedbackCap
  /\ mpsc[1].queue[1] = "p1"
  /\ ~panicked

\* C14: handle_feedback_msg changes no table, neither feedback_senders, and
\* no oneshot sink; feedback for a goal without sender changes nothing at
\* all and does not panic; feedback for a goal with a sender changes no queue
\* but that goal's.
C14_FeedbackTouchesOnlyItsSink ==
  [][\A u \in WireUuids, p \in Payloads :
       (event'.op = "handle_feedback_msg" /\ handle_feedback_msg("RCL_RET_OK", u, p))
       => /\ UNCHANGED <<tables, goal_sinks, cancel_reqs, result_sinks>>
          /\ (u \in Goals /\ u \notin Keys(feedback_senders))
               => UNCHANGED mpsc /\ ~panicked' /\ event'.result = "unit"
          /\ u \in Keys(feedback_senders)
               => \A h \in DOMAIN mpsc :
                    \/ mpsc'[h] = mpsc[h]
                    \/ /\ h = EntryOf(feedback_senders, u).sender
                       /\ mpsc'[h].queue = Append(mpsc[h].queue, p)
                       /\ mpsc'[h].rx = mpsc[h].rx]_vars

\* feedback for g2, which has no sender, was discarded while g1's sink holds
\* a payload and a cancel request is pending
C14_Witness ==
  /\ event.op = "handle_feedback_msg" /\ event.branch = "no sender"
  /\ Len(cancel_response_channels) = 1
  /\ Len(feedback_senders) = 1 /\ feedback_senders[1].key = "g1"
  /\ mpsc[1].queue = <<"p2">>
  /\ ~panicked

\* C15, as the claim has it: when handle_cancel_response matches an entry
\* whose consumer is gone, the request ends in the outcome ClientInvalid, the
\* entry is removed and the handler does not panic.
C15_FailedSendReportedClientInvalid ==
  [][\A id \in Keys(cancel_response_channels), c \in CancelCodes :
       (event'.op = "handle_cancel_response"
          /\ handle_cancel_response("RCL_RET_OK", id, c)
          /\ cancel_reqs[EntryOf(cancel_response_channels, id).sender].rx = "gone")
       => /\ CancelOutcome(cancel_reqs'[EntryOf(cancel_response_channels, id).sender])
               = "ClientInvalid"
          /\ id \notin Keys(cancel_response_channels')
          /\ ~panicked']_vars

\* C15, amended: when handle_cancel_response matches an entry whose consumer
\* is gone, the send fails and nothing is delivered or reported: the request
\* has no outcome, the entry is removed and the handler returns without a
\* panic, whatever the return code; a request gets the outcome ClientInvalid
\* only when the client is dropped while the request is pending and its
\* consumer awaits.
C15_FailedCancelSendOnlyLogged ==
  [][/\ \A id \in Keys(cancel_response_channels), c \in CancelCodes :
          (event'.op = "handle_cancel_response"
             /\ handle_cancel_response("RCL_RET_OK", id, c)
             /\ cancel_reqs[EntryOf(cancel_response_channels, id).sender].rx = "gone")
          => LET h == EntryOf(cancel_response_channels, id).sender
             IN /\ cancel_reqs'[h].tx = "failed"
                /\ cancel_reqs'[h].value = NoValue
                /\ CancelFuture(cancel_reqs'[h]) = "no future"
                /\ CancelOutcome(cancel_reqs'[h]) = "none"
                /\ id \notin Keys(cancel_response_channels')
                /\ Len(cancel_response_channels') = Len(cancel_response_channels) - 1
                /\ ~panicked' /\ event'.result = "unit"
     /\ \A h \in DOMAIN cancel_reqs :
          (CancelOutcome(cancel_reqs'[h]) = "ClientInvalid"
             /\ CancelOutcome(cancel_reqs[h]) # "ClientInvalid")
          => /\ drop_client
             /\ cancel_reqs[h].tx = "held" /\ cancel_reqs[h].rx = "awaiting"]_vars

\* the response to a cancel request was handled after its consumer had gone
C15_Witness ==
  /\ event.op = "handle_cancel_response" /\ event.branch = "match"
  /\ Len(cancel_reqs) = 1
  /\ cancel_reqs[1].rx = "gone" /\ cancel_reqs[1].tx = "failed"
  /\ cancel_reqs[1].sends = 1
  /\ cancel_response_channels = <<>>
  /\ ~panicked

\* C16: from_rcl decodes the codes 0..6 to the GoalStatus values in
\* declaration order and no other code; a status pair of a goal with a result
\* sender stores the decoded status, or panics when its code is none of 0..6;
\* a pair of a goal without result sender is skipped whatever its code: no
\* panic, no change.
C16_StatusDecoding ==
  /\ [](/\ \A c \in 0..6 : from_rcl(c) = GoalStatus[c + 1]
        /\ \A c \in AllStatusCodes \ (0..6) : from_rcl(c) = "panic")
  /\ [][\A g \in Goals, c \in AllStatusCodes :
          (event'.op = "handle_status_msg"
             /\ handle_status_msg("RCL_RET_OK", <<[uuid |-> g, status |-> c]>>))
          => IF any(result_senders, g)
             THEN IF c \in 0..6
                  THEN /\ ~panicked' /\ event'.result = "unit"
                       /\ goal_status' = [goal_status EXCEPT ![g] = GoalStatus[c + 1]]
                  ELSE /\ panicked' /\ event'.result = "panic"
                       /\ goal_status' = goal_status
             ELSE /\ ~panicked' /\ event'.result = "unit"
                  /\ goal_status' = goal_status]_vars

\* g1, with a result sender, was marked Canceling (code 3); then a pair of g2,
\* without one, with a code that is no status was skipped
C16_Witness ==
  /\ event.op = "handle_status_msg" /\ event.branch = "skips an unknown status"
  /\ event.result = "unit" /\ ~panicked
  /\ any(result_senders, "g1") /\ ~any(result_senders, "g2")
  /\ goal_status["g1"] = "Canceling"
  /\ goal_status["g2"] = NoEntry

\* C17: get_goal_status is Unknown for a goal without entry; a status list
\* handled without panic leaves a goal that it does not list, or that has no
\* result sender, as it was, and gives a listed goal with a result sender the
\* status of its last pair in the list; no other step of the living client
\* changes the store.
LastOf(arr, g) ==
  CHOOSE i \in 1..Len(arr) :
    /\ arr[i].uuid = g
    /\ \A j \in 1..Len(arr) : arr[j].uuid = g => j <= i

C17_LastProcessedStatusWins ==
  /\ [](\A g \in Goals : goal_status[g] = NoEntry => get_goal_status(g) = "Unknown")
  /\ [][/\ event'.op \notin {"handle_status_msg", "drop"} => UNCHANGED goal_status
        /\ \A arr \in WideStatusArrays \cup TwoStatusArrays :
             (event'.op = "handle_status_msg"
                /\ handle_status_msg("RCL_RET_OK", arr)
                /\ ~panicked')
             => \A g \in Goals :
                  IF (\E i \in 1..Len(arr) : arr[i].uuid = g) /\ any(result_senders, g)
                  THEN get_goal_status(g)' = GoalStatus[arr[LastOf(arr, g)].status + 1]
                  ELSE goal_status'[g] = goal_status[g]]_vars

\* a list with two pairs of g1 was handled: g1 has its status, g2,
\* never listed with a sender, is Unknown
C17_Witness ==
  /\ event.op = "handle_status_msg" /\ event.branch = "lists a goal twice"
  /\ any(result_senders, "g1")
  /\ get_goal_status("g1") = "Aborted"
  /\ goal_status["g2"] = NoEntry /\ get_goal_status("g2") = "Unknown"

\* C18: what handle_result_response does with a goal's sink follows from the
\* status in the response alone: status 4 sends the payload and any other
\* status drops the sender, whatever the goal's stored status is; the step
\* leaves the status store as it was.
C18_ResultIgnoresStatusStore ==
  [][\A id \in Keys(result_requests), c \in StatusCodes, p \in Payloads :
       (event'.op = "handle_result_response"
          /\ handle_result_response("RCL_RET_OK", id, c, p))
       => /\ goal_status' = goal_status
          /\ any(result_senders, EntryOf(result_requests, id).uuid)
               => LET g == EntryOf(result_requests, id).uuid
                      h == EntryOf(result_senders, g).sender
                  IN \A stored \in {"Unknown", "Executing", "Succeeded", "Aborted"} :
                       get_goal_status(g) = stored
                       => /\ c = 4 => /\ result_sinks'[h].sends = 1
                                      /\ result_sinks[h].rx = "awaiting"
                                           => /\ result_sinks'[h].tx = "sent"
                                              /\ result_sinks'[h].value = p
                          /\ c # 4 => /\ result_sinks'[h].tx = "dropped"
                                      /\ result_sinks'[h].sends = 0]_vars

\* the store holds Aborted for g1, and a response with status Succeeded
\* delivered g1's result all the same
C18_Witness ==
  /\ event.op = "handle_result_response" /\ event.branch = "send"
  /\ goal_status["g1"] = "Aborted"
  /\ Len(result_sinks) = 1 /\ result_sinks[1].goal = "g1"
  /\ result_sinks[1].tx = "sent" /\ result_sinks[1].value = "p2"

\* C19: while the client lives, a goal that has a status entry keeps having
\* one, and the stored status of a goal without result sender does not
\* change: after handle_result_response removed the sender it stays what it
\* was, until a sender is registered again.
C19_StatusFrozenAfterRemoval ==
  [][lifecycle' # "dropped"
       => \A g \in Goals :
            /\ goal_status[g] # NoEntry => goal_status'[g] # NoEntry
            /\ ~any(result_senders, g) => goal_status'[g] = goal_status[g]
            /\ (any(result_senders, g) /\ ~any(result_senders', g))
                 => /\ event'.op = "handle_result_response"
                    /\ goal_status'[g] = goal_status[g]]_vars

\* g1's sender was removed while the store said Executing; a later status
\* list naming g1 left it so
C19_Witness ==
  /\ event.op = "handle_status_msg" /\ event.branch = "lists a goal without sender"
  /\ Len(result_sinks) = 1 /\ result_sinks[1].goal = "g1"
  /\ result_sinks[1].tx \in {"sent", "dropped"}
  /\ result_senders = <<>>
  /\ goal_status["g1"] = "Executing"

\* C20: a result response that matches a pending request whose goal has no
\* result sender removes that request and nothing else: no sink and no stored
\* status changes, nothing is sent, and the handler returns without panic
\* whatever the status code is; so after a response resolved a goal's sink,
\* the response to another request for the goal resolves nothing.
C20_ResultResponseWithoutSink ==
  [][\A id \in Keys(result_requests), c \in StatusCodes, p \in Payloads :
       (event'.op = "handle_result_response"
          /\ handle_result_response("RCL_RET_OK", id, c, p)
          /\ ~any(result_senders, EntryOf(result_requests, id).uuid))
       => /\ Entries(result_requests') =
               Entries(result_requests) \ {EntryOf(result_requests, id)}
          /\ Len(result_requests') = Len(result_requests) - 1
          /\ UNCHANGED <<result_senders, result_sinks, goal_status, panicked>>
          /\ ~panicked /\ event'.result = "unit"]_vars

\* two result requests were sent for g2, which never had a result sender; the
\* response to one was handled and the other request is pending
C20_Witness ==
  /\ event.op = "handle_result_response" /\ event.branch = "no sender"
  /\ result_sinks = <<>>
  /\ Len(result_requests) = 1 /\ result_requests[1].uuid = "g2"
  /\ result_seq = 2
  /\ ~panicked

====
